---- MODULE Spec2Model ----
(***************************************************************************)
(* The image-ingestion pipeline of p2-ws/server/api_post_image.js          *)
(* (post_image) as a state machine: the relational store (assets, labels,  *)
(* the auto-increment counter), the object store, one database connection  *)
(* and one open transaction per request, the three retry-wrapped steps and *)
(* the concurrent fan-out of step 3.  Every await of the handler is one    *)
(* action, so requests interleave at the places where Node may switch.     *)
(*                                                                         *)
(* The other handlers of the server share the stores with the uploads:     *)
(* delete_images (api_delete_images.js), get_images (api_get_images.js),  *)
(* get_image (api_get_image.js), get_image_labels                          *)
(* (api_get_image_labels.js), get_images_with_label (api_get_image.js).    *)
(* Spec and FairSpec run uploads alone; ClearSpec runs them next to one    *)
(* Bulk Clear, RetrieveSpec next to one Retrieve, LabelsSpec next to one   *)
(* List Labels; QuietSpec serves uploads, a Bulk Clear and a List one at   *)
(* a time, ServeSpec and FairServeSpec two uploads and one request to any  *)
(* other handler, with get_dbConn() failing at entry or not.               *)
(***************************************************************************)
EXTENDS Integers, Sequences, FiniteSets, Bags, TLC

\* ------------------------------------------------------------------ bounds

\* How many external calls may fail transiently over the life of the system.
MaxFaults == 3

\* How many of them may happen in a run that has another handler next to the
\* uploads: such a run starts with the rest of the budget spent.
MixFaults == 1

\* The requests: two of them, the least number that interleaves one request
\* with another at every await.
Reqs == {1, 2}

\* ------------------------------------------------- constants of the program

\* { retries: 3 } written for { retries: 2 }.
Retries_three == 2 + 1

\* pRetry( ..., { retries: 2 } ): the number of ADDITIONAL attempts.
Retries == 2
\* ALTER TABLE assets AUTO_INCREMENT = 1001: the first asset id of the table.
FirstAssetId == 1001

\* ------------------------------------------------------ the request inputs

\* The users table, as the number of rows that `Where userid = ?` selects:
\* 80001 is a user, 80002 a duplicated id (the case lookup_user guards
\* against), 999999 an id of nobody.
UserIds == {80001, 80002, 999999}

RowsOfUser(userid) ==
    CASE userid = 80001 -> <<[username |-> "p_sarkar"]>>
      [] userid = 80002 -> <<[username |-> "e_ricci"], [username |-> "e_ricci"]>>
      [] OTHER          -> <<>>

Filenames == {"a.jpg"}
\* request.body.data: the image, base64-encoded.
Images    == {"aW1nMQ==", "aW1nMg=="}
\* The image of each request: two requests never carry the same image, so
\* that what is read back tells whose upload it was.
ImagesOf(r) == IF r = 1 THEN {"aW1nMQ=="} ELSE Images \ {"aW1nMQ=="}

\* Buffer.from( img_str, 'base64' )
FromBase64(img_str) ==
    CASE img_str = "aW1nMQ==" -> "img1"
      [] img_str = "aW1nMg==" -> "img2"
      [] OTHER                -> ""

\* What Rekognition may answer: Labels with a floating-point Confidence,
\* held here in tenths of a percent (957 is 95.7).
DetectorOutputs ==
    { <<>>,
      << [Name |-> "Cat", Confidence |-> 957],
         [Name |-> "Dog", Confidence |-> 909] >> }

\* Math.floor( label.Confidence ) on a value held in tenths.
Floor(tenths) == tenths \div 10

\* ------------------------------------------------------------------ errors

ValueError(msg) == [type |-> "ValueError", message |-> msg]
Error(msg)      == [type |-> "Error", message |-> msg]
NoError         == [type |-> "", message |-> ""]

DbFault     == Error("read ECONNRESET")
ClosedFault == Error("Can't add new command when connection is in closed state")
S3Fault     == Error("S3 request failed")
RkgFault    == Error("Rekognition request failed")

VARIABLES
    assets,       \* committed rows of table assets
    labels,       \* committed rows of table labels (a bag: no unique key)
    nextAssetId,  \* AUTO_INCREMENT of table assets
    bucket,       \* the objects of the bucket: [Key, Body]
    faults,       \* transient failures injected so far
    pc,           \* where the handler of each request stands
    req,          \* request.params, request.body
    conn,         \* dbConn of the request: "none", "open", "closed"
    txn,          \* the open transaction of dbConn: its uncommitted rows
    pr,           \* the state of each pRetry(...) of the request
    step_pc,      \* the await each retry-wrapped unit stands at
    lab_i,        \* update_labels: index of the next label to insert
    detect,       \* the promise of detect_labels
    promAll,      \* the promise of Promise.all([prom_assetid, prom_rkg_labels])
    local,        \* username, bkt_key, assetid, rkg_labels
    calls,        \* how often each unit was invoked for the request
    seen,         \* what the attempts of the request observed
    response,     \* the responses sent for the request, in order
    del,          \* the delete_images request
    lst,          \* the get_images request
    rtv,          \* the get_image request
    ilb,          \* the get_image_labels request
    giwl          \* the get_images_with_label request

\* The requests to the handlers other than post_image.
hvars == << del, lst, rtv, ilb, giwl >>

vars == << assets, labels, nextAssetId, bucket, faults, pc, req,
           conn, txn, pr, step_pc, lab_i, detect, promAll, local, calls,
           seen, response, del, lst, rtv, ilb, giwl >>

\* ------------------------------------------------------------- the wrapper

Steps == {"lookup_user", "update_db", "update_labels"}
Units == Steps \cup {"upload_to_bucket", "detect_labels"}

\* What one invocation of a unit of work ends with.
Ok(v)     == [ok |-> TRUE,  value |-> <<v>>, error |-> NoError]
Failed(e) == [ok |-> FALSE, value |-> <<>>,  error |-> e]

\* A pRetry( unit, { retries: Retries } ) promise: the invocations made so
\* far, whether it is settled, and what it settled with.
pRetry_idle    == [attempts |-> 0, status |-> "idle",    value |-> <<>>, error |-> NoError]
pRetry_pending == [attempts |-> 0, status |-> "pending", value |-> <<>>, error |-> NoError]


\* The wrapper after one more invocation of the unit ended with outcome o:
\* a success resolves it with that result; a failure is retried while fewer
\* than Retries retries were made, and else rejects it with that failure.
pRetry(st, o) ==
    IF o.ok
    THEN [st EXCEPT !.attempts = @ + 1, !.status = "resolved", !.value = o.value]
    ELSE IF st.attempts < Retries
         THEN [st EXCEPT !.attempts = @ + 1, !.error = o.error]
         ELSE [st EXCEPT !.attempts = @ + 1, !.status = "rejected", !.error = o.error]

\* ------------------------------------------------------------ initial state

NoReq   == [userid |-> 0, local_filename |-> "", data |-> ""]
NoTxn   == [open |-> FALSE, assets |-> {}, labels |-> EmptyBag]
NoKey   == <<>>
NoLocal == [username |-> "", bkt_key |-> NoKey, assetid |-> 0, rkg_labels |-> <<>>]
NoProm  == [status |-> "idle", error |-> NoError]

\* The requests to the other handlers before they arrive.  before, after
\* and known record what the other requests had done when this one arrived
\* or answered; clause is the statement of delete_sql that is next.
NoDel == [pc |-> "idle", conn |-> "none", pr |-> pRetry_idle, keys |-> {},
          clause |-> 0, calls |-> 0, response |-> <<>>,
          before |-> {}, after |-> {}]
NoLst == [pc |-> "idle", conn |-> "none", userid |-> -1, pr |-> pRetry_idle,
          result |-> Ok(0), response |-> <<>>, after |-> FALSE]
NoRtv == [pc |-> "idle", conn |-> "none", assetid |-> "", pr |-> pRetry_idle,
          row |-> <<>>, body |-> <<>>, calls |-> 0, response |-> <<>>,
          known |-> FALSE]
NoIlb == [pc |-> "idle", conn |-> "none", assetid |-> "",
          pr |-> [s \in {"validate_assetid", "fetch_labels"} |-> pRetry_idle],
          response |-> <<>>]
NoGiwl == [pc |-> "idle", conn |-> "none", label |-> "", pr |-> pRetry_idle,
           result |-> Ok(0), first |-> NoError, transients |-> 0,
           response |-> <<>>]

\* The server with empty tables and an empty bucket, no request arrived,
\* and spent of the budget of transient failures already spent.
Start(spent) ==
    /\ assets = {}
    /\ labels = EmptyBag
    /\ nextAssetId = FirstAssetId
    /\ bucket = {}
    /\ faults = spent
    /\ del = NoDel
    /\ lst = NoLst
    /\ rtv = NoRtv
    /\ ilb = NoIlb
    /\ giwl = NoGiwl
    /\ pc = [r \in Reqs |-> "idle"]
    /\ req = [r \in Reqs |-> NoReq]
    /\ conn = [r \in Reqs |-> "none"]
    /\ txn = [r \in Reqs |-> NoTxn]
    /\ pr = [r \in Reqs |-> [s \in Steps |-> pRetry_idle]]
    /\ step_pc = [r \in Reqs |-> [s \in Steps |-> "none"]]
    /\ lab_i = [r \in Reqs |-> 1]
    /\ detect = [r \in Reqs |-> "idle"]
    /\ promAll = [r \in Reqs |-> NoProm]
    /\ local = [r \in Reqs |-> NoLocal]
    /\ calls = [r \in Reqs |-> [u \in Units |-> 0]]
    /\ seen = [r \in Reqs |-> [zero_rows         |-> FALSE,
                                lookup_transients |-> 0,
                                last_error        |-> [s \in Steps |-> NoError]]]
    /\ response = [r \in Reqs |-> <<>>]

Init == Start(0)

MixInit == Start(MaxFaults - MixFaults)

\* ------------------------------------------------------------ the handler

\* The outcomes an external call may have besides the one it computes: a
\* transient failure, while the budget of failures lasts.
Transient(e) == IF faults < MaxFaults THEN {Failed(e)} ELSE {}

IsTransient(o) == ~o.ok /\ o.error \in {DbFault, S3Fault, RkgFault}
CountFault(o)  == faults' = IF IsTransient(o) THEN faults + 1 ELSE faults

\* A call on dbConn: it fails when the connection was ended, may fail
\* transiently, and else has the outcome computed.
DbCall(r, o) == IF conn[r] = "open" THEN {o} \cup Transient(DbFault)
                ELSE {Failed(ClosedFault)}

\* What the attempts of a request observed: that a lookup selected no row,
\* how many lookups failed transiently, and the failure of the latest
\* invocation of each wrapped unit.
Observe(r, s, o) ==
    seen' = [seen EXCEPT
               ![r].zero_rows = @ \/ (s = "lookup_user" /\ o.error.type = "ValueError"),
               ![r].lookup_transients =
                   IF s = "lookup_user" /\ IsTransient(o) THEN @ + 1 ELSE @,
               ![r].last_error[s] = IF o.ok THEN @ ELSE o.error]

\* response.status( stat ).json( { message: err.message, assetid: -1 } )
ErrorResponse(err) ==
    [status  |-> IF err.type = "ValueError" THEN 400 ELSE 500,
     message |-> err.message,
     assetid |-> -1]

\* response.json( { message: "success", assetid: assetid } )
SuccessResponse(assetid) ==
    [status |-> 200, message |-> "success", assetid |-> assetid]

\* The catch block of post_image: one response, then on to the finally block.
Catch(r, err) ==
    /\ response' = [response EXCEPT ![r] = Append(@, ErrorResponse(err))]
    /\ pc' = [pc EXCEPT ![r] = "finally"]

\* Entry: the connection is acquired and the inputs are read; the handler
\* then awaits the wrapped owner lookup.
post_image(r) ==
    /\ pc[r] = "idle"
    /\ UNCHANGED hvars
    /\ \E userid \in UserIds, fn \in Filenames, img \in ImagesOf(r) :
          req' = [req EXCEPT ![r] =
                     [userid |-> userid, local_filename |-> fn, data |-> img]]
    /\ conn' = [conn EXCEPT ![r] = "open"]
    /\ pr' = [pr EXCEPT ![r]["lookup_user"] = pRetry_pending]
    /\ step_pc' = [step_pc EXCEPT ![r]["lookup_user"] = "execute"]
    /\ pc' = [pc EXCEPT ![r] = "lookup_user"]
    /\ UNCHANGED << assets, labels, nextAssetId, bucket, faults, txn,
                    lab_i, detect, promAll, local, calls, seen, response >>


\* lookup_user without its check of an empty result: the username comes out
\* undefined instead of the ValueError.
lookup_user_rows_unchecked(rows) ==
    IF Len(rows) > 1 THEN Failed(Error("unexpected duplicate userid"))
    ELSE IF Len(rows) < 1 THEN Ok("undefined")
    ELSE Ok(rows[1].username)

\* What lookup_user makes of the rows its query selected.
lookup_user_rows(rows) ==
    IF Len(rows) < 1 THEN Failed(ValueError("no such userid"))
    ELSE IF Len(rows) > 1 THEN Failed(Error("unexpected duplicate userid"))
    ELSE Ok(rows[1].username)

\* One invocation of lookup_user by its wrapper.
lookup_user(r) ==
    /\ pc[r] = "lookup_user"
    /\ UNCHANGED hvars
    /\ pr[r]["lookup_user"].status = "pending"
    /\ calls' = [calls EXCEPT ![r]["lookup_user"] = @ + 1]
    /\ \E o \in DbCall(r, lookup_user_rows(RowsOfUser(req[r].userid))) :
          LET st == pRetry(pr[r]["lookup_user"], o) IN
          /\ CountFault(o)
          /\ Observe(r, "lookup_user", o)
          /\ pr' = [pr EXCEPT ![r]["lookup_user"] = st]
          /\ step_pc' = [step_pc EXCEPT ![r]["lookup_user"] =
                            IF st.status = "pending" THEN "execute" ELSE "none"]
          /\ IF st.status = "resolved"
             THEN /\ local' = [local EXCEPT ![r].username = st.value[1]]
                  /\ pc' = [pc EXCEPT ![r] = "upload_to_bucket"]
                  /\ UNCHANGED response
             ELSE IF st.status = "rejected"
             THEN /\ Catch(r, st.error)
                  /\ UNCHANGED local
             ELSE UNCHANGED << local, pc, response >>
    /\ UNCHANGED << assets, labels, nextAssetId, bucket, req, conn,
                    txn, lab_i, detect, promAll >>

\* uuidv4(), called once per request: a value no other call returns.
uuidv4(r) == r

\* `${ username }/${ uuidv4() }-${ local_filename }`
BucketKey(username, uuid, local_filename) == <<username, uuid, local_filename>>


\* upload_to_bucket wrapped in a retry: after a failure the upload is issued
\* again instead of failing the request.
upload_to_bucket_retried(r) ==
    /\ pc[r] = "upload_to_bucket"
    /\ UNCHANGED hvars
    /\ calls' = [calls EXCEPT ![r]["upload_to_bucket"] = @ + 1]
    /\ \E o \in {Ok(<<local[r].username, r, req[r].local_filename>>)}
                  \cup Transient(S3Fault) :
          /\ CountFault(o)
          /\ IF o.ok
             THEN /\ bucket' = bucket \cup
                         {[Key |-> o.value[1], Body |-> FromBase64(req[r].data)]}
                  /\ local' = [local EXCEPT ![r].bkt_key = o.value[1]]
                  /\ pr' = [pr EXCEPT ![r]["update_db"] = pRetry_pending]
                  /\ step_pc' = [step_pc EXCEPT ![r]["update_db"] = "begin"]
                  /\ detect' = [detect EXCEPT ![r] = "pending"]
                  /\ promAll' = [promAll EXCEPT ![r].status = "pending"]
                  /\ pc' = [pc EXCEPT ![r] = "fanout"]
             ELSE UNCHANGED << bucket, local, pr, step_pc, detect, promAll, pc >>
    /\ UNCHANGED << assets, labels, nextAssetId, req, conn, txn, lab_i, seen,
                    response >>

\* upload_to_bucket, called once and not wrapped; on success the handler
\* starts the wrapped registration and the label detection, and awaits both.
upload_to_bucket(r) ==
    /\ pc[r] = "upload_to_bucket"
    /\ UNCHANGED hvars
    /\ calls' = [calls EXCEPT ![r]["upload_to_bucket"] = @ + 1]
    /\ \E o \in {Ok(BucketKey(local[r].username, uuidv4(r), req[r].local_filename))}
                  \cup Transient(S3Fault) :
          /\ CountFault(o)
          /\ IF o.ok
             THEN /\ bucket' = bucket \cup
                         {[Key |-> o.value[1], Body |-> FromBase64(req[r].data)]}
                  /\ local' = [local EXCEPT ![r].bkt_key = o.value[1]]
                  /\ pr' = [pr EXCEPT ![r]["update_db"] = pRetry_pending]
                  /\ step_pc' = [step_pc EXCEPT ![r]["update_db"] = "begin"]
                  /\ detect' = [detect EXCEPT ![r] = "pending"]
                  /\ promAll' = [promAll EXCEPT ![r].status = "pending"]
                  /\ pc' = [pc EXCEPT ![r] = "fanout"]
                  /\ UNCHANGED response
             ELSE /\ Catch(r, o.error)
                  /\ UNCHANGED << bucket, local, pr, step_pc, detect, promAll >>
    /\ UNCHANGED << assets, labels, nextAssetId, req, conn, txn, lab_i, seen >>

\* dbConn.beginTransaction(): START TRANSACTION first commits whatever
\* transaction the connection still has open.
beginTransaction(r) ==
    /\ assets' = assets \cup txn[r].assets
    /\ labels' = labels (+) txn[r].labels
    /\ txn' = [txn EXCEPT ![r] = [NoTxn EXCEPT !.open = TRUE]]


\* Promise.all that is resolved by the registration alone, whatever the
\* label detection does.
AllAfterDb_without_detect(r, st) ==
    IF promAll[r].status # "pending" THEN promAll[r]
    ELSE IF st.status = "rejected" THEN [status |-> "rejected", error |-> st.error]
    ELSE IF st.status = "resolved" THEN [status |-> "resolved", error |-> NoError]
    ELSE promAll[r]

\* Promise.all after the registration promise settled as st.
AllAfterDb(r, st) ==
    IF promAll[r].status # "pending" THEN promAll[r]
    ELSE IF st.status = "rejected" THEN [status |-> "rejected", error |-> st.error]
    ELSE IF st.status = "resolved" /\ detect[r] = "resolved"
         THEN [status |-> "resolved", error |-> NoError]
    ELSE promAll[r]

\* One invocation of update_db ended with outcome o: its wrapper settles or
\* starts over.
update_db_attempt(r, o) ==
    LET st == pRetry(pr[r]["update_db"], o) IN
    /\ Observe(r, "update_db", o)
    /\ pr' = [pr EXCEPT ![r]["update_db"] = st]
    /\ step_pc' = [step_pc EXCEPT ![r]["update_db"] =
                      IF st.status = "pending" THEN "begin" ELSE "none"]
    /\ promAll' = [promAll EXCEPT ![r] = AllAfterDb(r, st)]

\* update_db: await dbConn.beginTransaction(), outside the try block.
update_db_begin(r) ==
    /\ pr[r]["update_db"].status = "pending"
    /\ UNCHANGED hvars
    /\ step_pc[r]["update_db"] = "begin"
    /\ calls' = [calls EXCEPT ![r]["update_db"] = @ + 1]
    /\ \E o \in DbCall(r, Ok(0)) :
          /\ CountFault(o)
          /\ IF o.ok
             THEN /\ beginTransaction(r)
                  /\ step_pc' = [step_pc EXCEPT ![r]["update_db"] = "execute"]
                  /\ UNCHANGED << pr, promAll, seen >>
             ELSE /\ update_db_attempt(r, o)
                  /\ UNCHANGED << assets, labels, txn >>
    /\ UNCHANGED << nextAssetId, bucket, pc, req, conn, lab_i, detect, local,
                    response >>


\* update_db whose catch block does not roll back: the transaction stays as
\* it was.
update_db_rollback_missing(t) == t

\* update_db, the catch block: await dbConn.rollback() on the transaction t.
update_db_rollback(t) == NoTxn

\* update_db: the Insert Into assets; the row takes the next id of the table
\* and stays uncommitted.  A failure rolls the transaction back.
update_db_execute(r) ==
    /\ pr[r]["update_db"].status = "pending"
    /\ UNCHANGED hvars
    /\ step_pc[r]["update_db"] = "execute"
    /\ \E o \in DbCall(r, Ok(nextAssetId)) :
          /\ CountFault(o)
          /\ IF o.ok
             THEN /\ txn' = [txn EXCEPT ![r].assets = @ \cup
                               {[assetid   |-> o.value[1],
                                 userid    |-> req[r].userid,
                                 localname |-> req[r].local_filename,
                                 bucketkey |-> local[r].bkt_key]}]
                  /\ nextAssetId' = nextAssetId + 1
                  /\ step_pc' = [step_pc EXCEPT ![r]["update_db"] = "commit"]
                  /\ UNCHANGED << pr, promAll, seen >>
             ELSE /\ txn' = [txn EXCEPT ![r] = update_db_rollback(@)]
                  /\ update_db_attempt(r, o)
                  /\ UNCHANGED nextAssetId
    /\ UNCHANGED << assets, labels, bucket, pc, req, conn, lab_i, detect, local,
                    calls, response >>


\* info.affectedRows taken for info.insertId.
InsertId_affectedRows(t) == Cardinality(t.assets)

\* info.insertId of the row the transaction t inserted.
InsertId(t) == (CHOOSE row \in t.assets : TRUE).assetid


\* update_db that returns insertId without its commit having been applied.
update_db_committed_lost(t, o) == assets

\* dbConn.commit() of update_db on the transaction t, with outcome o: the
\* rows of table assets afterwards.
update_db_committed(t, o) == IF o.ok THEN assets \cup t.assets ELSE assets

\* update_db: await dbConn.commit(); the wrapper resolves with insertId.  A
\* failure rolls the transaction back.
update_db_commit(r) ==
    /\ pr[r]["update_db"].status = "pending"
    /\ UNCHANGED hvars
    /\ step_pc[r]["update_db"] = "commit"
    /\ \E o \in DbCall(r, Ok(InsertId(txn[r]))) :
          /\ CountFault(o)
          /\ assets' = update_db_committed(txn[r], o)
          /\ txn' = [txn EXCEPT ![r] = IF o.ok THEN NoTxn ELSE update_db_rollback(@)]
          /\ update_db_attempt(r, o)
    /\ UNCHANGED << labels, nextAssetId, bucket, pc, req, conn, lab_i, detect,
                    local, calls, response >>

\* detect_labels, called once and not wrapped.
detect_labels(r) ==
    /\ detect[r] = "pending"
    /\ UNCHANGED hvars
    /\ calls' = [calls EXCEPT ![r]["detect_labels"] = @ + 1]
    /\ \E o \in {Ok(out) : out \in DetectorOutputs} \cup Transient(RkgFault) :
          /\ CountFault(o)
          /\ detect' = [detect EXCEPT ![r] = IF o.ok THEN "resolved" ELSE "rejected"]
          /\ local' = [local EXCEPT ![r].rkg_labels = IF o.ok THEN o.value[1] ELSE @]
          /\ promAll' = [promAll EXCEPT ![r] =
                IF @.status # "pending" THEN @
                ELSE IF ~o.ok THEN [status |-> "rejected", error |-> o.error]
                ELSE IF pr[r]["update_db"].status = "resolved"
                     THEN [status |-> "resolved", error |-> NoError]
                ELSE @]
    /\ UNCHANGED << assets, labels, nextAssetId, bucket, pc, req, conn,
                    txn, pr, step_pc, lab_i, seen, response >>

\* The handler resumes from await Promise.all( ... ): with both results, or
\* in its catch block with the first rejection.
post_image_join(r) ==
    /\ pc[r] = "fanout"
    /\ UNCHANGED hvars
    /\ promAll[r].status \in {"resolved", "rejected"}
    /\ IF promAll[r].status = "resolved"
       THEN /\ local' = [local EXCEPT ![r].assetid = pr[r]["update_db"].value[1]]
            /\ pr' = [pr EXCEPT ![r]["update_labels"] = pRetry_pending]
            /\ step_pc' = [step_pc EXCEPT ![r]["update_labels"] = "begin"]
            /\ pc' = [pc EXCEPT ![r] = "update_labels"]
            /\ UNCHANGED response
       ELSE /\ Catch(r, promAll[r].error)
            /\ UNCHANGED << local, pr, step_pc >>
    /\ UNCHANGED << assets, labels, nextAssetId, bucket, faults, req,
                    conn, txn, lab_i, detect, promAll, calls, seen >>

\* One invocation of update_labels ended with outcome o: the handler goes on
\* to its success response, to its catch block, or the wrapper starts over.
update_labels_attempt(r, o) ==
    LET st == pRetry(pr[r]["update_labels"], o) IN
    /\ Observe(r, "update_labels", o)
    /\ pr' = [pr EXCEPT ![r]["update_labels"] = st]
    /\ step_pc' = [step_pc EXCEPT ![r]["update_labels"] =
                      IF st.status = "pending" THEN "begin" ELSE "none"]
    /\ IF st.status = "resolved"
       THEN /\ response' = [response EXCEPT ![r] =
                               Append(@, SuccessResponse(local[r].assetid))]
            /\ pc' = [pc EXCEPT ![r] = "finally"]
       ELSE IF st.status = "rejected"
       THEN Catch(r, st.error)
       ELSE UNCHANGED << response, pc >>

\* update_labels: await dbConn.beginTransaction(), outside the try block.
update_labels_begin(r) ==
    /\ pc[r] = "update_labels"
    /\ UNCHANGED hvars
    /\ step_pc[r]["update_labels"] = "begin"
    /\ calls' = [calls EXCEPT ![r]["update_labels"] = @ + 1]
    /\ \E o \in DbCall(r, Ok(0)) :
          /\ CountFault(o)
          /\ IF o.ok
             THEN /\ beginTransaction(r)
                  /\ lab_i' = [lab_i EXCEPT ![r] = 1]
                  /\ step_pc' = [step_pc EXCEPT ![r]["update_labels"] =
                         IF Len(local[r].rkg_labels) = 0 THEN "commit" ELSE "execute"]
                  /\ UNCHANGED << pr, response, pc, seen >>
             ELSE /\ update_labels_attempt(r, o)
                  /\ UNCHANGED << assets, labels, txn, lab_i >>
    /\ UNCHANGED << nextAssetId, bucket, req, conn, detect, promAll, local >>

\* The row update_labels inserts for one label of the detector.
LabelRow(assetid, label) ==
    [assetid |-> assetid, label |-> label.Name, confidence |-> Floor(label.Confidence)]


\* update_labels whose catch block does not roll back.
update_labels_rollback_missing(t) == t

\* update_labels, the catch block: await dbConn.rollback() on the
\* transaction t.
update_labels_rollback(t) == NoTxn

\* update_labels: one Insert Into labels of the loop.  A failure rolls the
\* transaction back.
update_labels_execute(r) ==
    /\ pc[r] = "update_labels"
    /\ UNCHANGED hvars
    /\ step_pc[r]["update_labels"] = "execute"
    /\ \E o \in DbCall(r, Ok(0)) :
          /\ CountFault(o)
          /\ IF o.ok
             THEN /\ txn' = [txn EXCEPT ![r].labels = @ (+) SetToBag(
                               {LabelRow(local[r].assetid, local[r].rkg_labels[lab_i[r]])})]
                  /\ lab_i' = [lab_i EXCEPT ![r] = @ + 1]
                  /\ step_pc' = [step_pc EXCEPT ![r]["update_labels"] =
                         IF lab_i[r] + 1 > Len(local[r].rkg_labels)
                         THEN "commit" ELSE "execute"]
                  /\ UNCHANGED << pr, response, pc, seen >>
             ELSE /\ txn' = [txn EXCEPT ![r] = update_labels_rollback(@)]
                  /\ update_labels_attempt(r, o)
                  /\ UNCHANGED lab_i
    /\ UNCHANGED << assets, labels, nextAssetId, bucket, req, conn,
                    detect, promAll, local, calls >>

\* update_labels: await dbConn.commit().  A failure rolls the transaction
\* back.
update_labels_commit(r) ==
    /\ pc[r] = "update_labels"
    /\ UNCHANGED hvars
    /\ step_pc[r]["update_labels"] = "commit"
    /\ \E o \in DbCall(r, Ok(0)) :
          /\ CountFault(o)
          /\ labels' = IF o.ok THEN labels (+) txn[r].labels ELSE labels
          /\ txn' = [txn EXCEPT ![r] = IF o.ok THEN NoTxn ELSE update_labels_rollback(@)]
          /\ update_labels_attempt(r, o)
    /\ UNCHANGED << assets, nextAssetId, bucket, req, conn, lab_i,
                    detect, promAll, local, calls >>


\* dbConn.end() at the end of the try block instead of in a finally block:
\* the connection is closed after the success response only.
post_image_finally_success_only(r) ==
    /\ pc[r] = "finally"
    /\ UNCHANGED hvars
    /\ conn' = [conn EXCEPT ![r] =
                   IF response[r][1].status = 200 THEN "closed" ELSE @]
    /\ txn' = [txn EXCEPT ![r] = NoTxn]
    /\ pc' = [pc EXCEPT ![r] = "done"]
    /\ UNCHANGED << assets, labels, nextAssetId, bucket, faults, req,
                    pr, step_pc, lab_i, detect, promAll, local, calls, seen,
                    response >>

\* The finally block: await dbConn.end().  The server drops what the
\* connection had not committed.
post_image_finally(r) ==
    /\ pc[r] = "finally"
    /\ UNCHANGED hvars
    /\ conn' = [conn EXCEPT ![r] = "closed"]
    /\ txn' = [txn EXCEPT ![r] = NoTxn]
    /\ pc' = [pc EXCEPT ![r] = "done"]
    /\ UNCHANGED << assets, labels, nextAssetId, bucket, faults, req,
                    pr, step_pc, lab_i, detect, promAll, local, calls, seen,
                    response >>

Next ==
    \E r \in Reqs :
        \/ post_image(r)
        \/ lookup_user(r)
        \/ upload_to_bucket(r)
        \/ update_db_begin(r)
        \/ update_db_execute(r)
        \/ update_db_commit(r)
        \/ detect_labels(r)
        \/ post_image_join(r)
        \/ update_labels_begin(r)
        \/ update_labels_execute(r)
        \/ update_labels_commit(r)
        \/ post_image_finally(r)

Spec == Init /\ [][Next]_vars

\* Every step that is enabled is eventually taken: Node runs every callback
\* whose promise settled, and every external call answers or fails.
FairSpec == Spec /\ WF_vars(Next)

\* ----------------------------------------------------------- delete_images

\* The state of the upload requests, and the stores they share with the
\* other handlers.
uvars  == << pc, req, conn, txn, pr, step_pc, lab_i, detect, promAll, local,
             calls, seen, response >>
tables == << assets, labels, nextAssetId >>

\* A call of one of the other handlers on its own open connection, or on a
\* service: the outcome computed, or the transient failure e.
Call(o, e) == {o} \cup Transient(e)

\* response.json( { message: "success" } ), and
\* response.status( 500 ).json( { message: err.message } )
delete_images_success    == [status |-> 200, message |-> "success"]
delete_images_error(err) == [status |-> 500, message |-> err.message]

\* delete_images leaves its try block with its success response, or through
\* its catch block; the finally block is next.
delete_images_respond(d, resp) ==
    [d EXCEPT !.response = Append(@, resp),
              !.pc = "finally",
              !.after = IF resp.status = 200
                        THEN {r \in Reqs : pc[r] = "idle"} ELSE @]

\* Entry: the connection is acquired; the handler awaits the wrapped
\* get_keys.
delete_images ==
    /\ del.pc = "idle"
    /\ del' = [del EXCEPT !.pc = "get_keys", !.conn = "open",
                          !.pr = pRetry_pending,
                          !.before = {r \in Reqs : pc[r] = "done"}]
    /\ UNCHANGED << uvars, tables, bucket, faults, lst, rtv, ilb, giwl >>

\* One invocation of get_keys by its wrapper: Select bucketkey From assets,
\* which sees the committed rows.
get_keys ==
    /\ del.pc = "get_keys"
    /\ \E o \in Call(Ok({a.bucketkey : a \in assets}), DbFault) :
          LET st == pRetry(del.pr, o) IN
          /\ CountFault(o)
          /\ del' = IF st.status = "resolved"
                    THEN [del EXCEPT !.pr = st, !.keys = st.value[1],
                                     !.pc = "clear_db_begin"]
                    ELSE IF st.status = "rejected"
                    THEN delete_images_respond([del EXCEPT !.pr = st],
                                               delete_images_error(st.error))
                    ELSE [del EXCEPT !.pr = st]
    /\ UNCHANGED << uvars, tables, bucket, lst, rtv, ilb, giwl >>

\* clear_db, called once and not wrapped: await dbConn.beginTransaction(),
\* outside the try block.
clear_db_begin ==
    /\ del.pc = "clear_db_begin"
    /\ \E o \in Call(Ok(0), DbFault) :
          /\ CountFault(o)
          /\ del' = IF o.ok
                    THEN [del EXCEPT !.pc = "clear_db_execute", !.clause = 1]
                    ELSE delete_images_respond(del, delete_images_error(o.error))
    /\ UNCHANGED << uvars, tables, bucket, lst, rtv, ilb, giwl >>


\* delete_sql without its last clause: the counter of the table is left
\* where TRUNCATE put it.
delete_sql_no_alter ==
    << "SET foreign_key_checks = 0",
       "TRUNCATE TABLE labels",
       "TRUNCATE TABLE assets",
       "SET foreign_key_checks = 1" >>

\* The clauses clear_db executes, in order.
delete_sql ==
    << "SET foreign_key_checks = 0",
       "TRUNCATE TABLE labels",
       "TRUNCATE TABLE assets",
       "SET foreign_key_checks = 1",
       "ALTER TABLE assets AUTO_INCREMENT = 1001" >>

\* A clause on a table waits for the transactions of other connections that
\* hold uncommitted rows of that table.
Waits(clause) ==
    CASE clause = "TRUNCATE TABLE labels" -> \E r \in Reqs : txn[r].labels # EmptyBag
      [] clause \in {"TRUNCATE TABLE assets",
                     "ALTER TABLE assets AUTO_INCREMENT = 1001"}
                                          -> \E r \in Reqs : txn[r].assets # {}
      [] OTHER                            -> FALSE

\* What a clause does to the tables as it is executed.  TRUNCATE and ALTER
\* are data definition statements: each is committed as it ends, whatever
\* the transaction it was issued in, and TRUNCATE puts the counter of the
\* table back to its start.
Execute(clause) ==
    /\ labels' = IF clause = "TRUNCATE TABLE labels" THEN EmptyBag ELSE labels
    /\ assets' = IF clause = "TRUNCATE TABLE assets" THEN {} ELSE assets
    /\ nextAssetId' =
          CASE clause = "TRUNCATE TABLE assets" -> 1
            [] clause = "ALTER TABLE assets AUTO_INCREMENT = 1001" -> FirstAssetId
            [] OTHER -> nextAssetId

\* clear_db: one await dbConn.execute( clause ) of the loop.  A failure goes
\* through dbConn.rollback(), which has nothing left to undo, and on to the
\* catch block of the handler.
clear_db_execute ==
    /\ del.pc = "clear_db_execute"
    /\ ~Waits(delete_sql[del.clause])
    /\ \E o \in Call(Ok(0), DbFault) :
          /\ CountFault(o)
          /\ IF o.ok
             THEN /\ Execute(delete_sql[del.clause])
                  /\ del' = [del EXCEPT !.clause = @ + 1,
                                !.pc = IF del.clause = Len(delete_sql)
                                       THEN "clear_db_commit" ELSE @]
             ELSE /\ del' = delete_images_respond(del, delete_images_error(o.error))
                  /\ UNCHANGED tables
    /\ UNCHANGED << uvars, bucket, lst, rtv, ilb, giwl >>

\* clear_db: await dbConn.commit().  On success the handler goes on to
\* clear_bkt when there are keys, and to its success response when not.
clear_db_commit ==
    /\ del.pc = "clear_db_commit"
    /\ \E o \in Call(Ok(0), DbFault) :
          /\ CountFault(o)
          /\ del' = IF ~o.ok
                    THEN delete_images_respond(del, delete_images_error(o.error))
                    ELSE IF Cardinality(del.keys) > 0
                    THEN [del EXCEPT !.pc = "clear_bkt"]
                    ELSE delete_images_respond(del, delete_images_success)
    /\ UNCHANGED << uvars, tables, bucket, lst, rtv, ilb, giwl >>


\* DeleteObjects that empties the bucket instead of deleting the keys given.
DeleteObjects_all(keys) == {}

\* The bucket after DeleteObjectsCommand( { Delete: { Objects: keydict } } ).
DeleteObjects(keys) == {o \in bucket : o.Key \notin keys}


\* clear_bkt whose catch block does not rethrow: the failure is logged and
\* the handler goes on to its success response.
clear_bkt_swallowed ==
    /\ del.pc = "clear_bkt"
    /\ \E o \in Call(Ok(0), S3Fault) :
          /\ CountFault(o)
          /\ bucket' = IF o.ok THEN DeleteObjects(del.keys) ELSE bucket
          /\ del' = delete_images_respond([del EXCEPT !.calls = @ + 1],
                                          delete_images_success)
    /\ UNCHANGED << uvars, tables, lst, rtv, ilb, giwl >>

\* clear_bkt, called once and not wrapped: await bkt.send( cmd ); its catch
\* block rethrows, into the catch block of the handler.
clear_bkt ==
    /\ del.pc = "clear_bkt"
    /\ \E o \in Call(Ok(0), S3Fault) :
          /\ CountFault(o)
          /\ bucket' = IF o.ok THEN DeleteObjects(del.keys) ELSE bucket
          /\ del' = delete_images_respond([del EXCEPT !.calls = @ + 1],
                       IF o.ok THEN delete_images_success
                       ELSE delete_images_error(o.error))
    /\ UNCHANGED << uvars, tables, lst, rtv, ilb, giwl >>

\* The finally block: await dbConn.end().
delete_images_finally ==
    /\ del.pc = "finally"
    /\ del' = [del EXCEPT !.conn = "closed", !.pc = "done"]
    /\ UNCHANGED << uvars, tables, bucket, faults, lst, rtv, ilb, giwl >>

\* -------------------------------------------------------------- get_images

\* request.query.userid: absent, or the text given.
NoQuery == <<>>
Queries == {NoQuery, <<"80001">>, <<"0">>, <<"abc">>}

\* The texts parseInt makes a number of; of any other it makes NaN.
Numerals == {"0", "1", "1001", "1002", "1003", "80001"}

\* parseInt( text ), where it is a number.
ParseInt(text) ==
    CASE text = "0"      -> 0
      [] text = "1"      -> 1
      [] text = "1001"   -> 1001
      [] text = "1002"   -> 1002
      [] text = "1003"   -> 1003
      [] text = "80001"  -> 80001

\* isNaN( parseInt( text ) )
IsNaN(text) == text \notin Numerals

\* userid = -1; if ( request.query.userid ) userid = parseInt( ... ): the
\* empty text is no filter either.
HasFilter(query) == query # NoQuery /\ query[1] # ""
FilterOf(query)  == IF HasFilter(query) THEN ParseInt(query[1]) ELSE -1

\* The `?` of the statement try_get_images builds: `Where userid = ?` is
\* added if ( userid >= 0 ).
Placeholders(userid) == IF userid >= 0 THEN 1 ELSE 0

\* The parameters it binds: userid ? [ userid, ] : [].
Parameters(userid) == IF userid # 0 THEN <<userid>> ELSE <<>>

\* Order By assetid Asc
RECURSIVE OrderByAssetid(_)
OrderByAssetid(rows) ==
    IF rows = {} THEN <<>>
    ELSE LET first == CHOOSE x \in rows : \A y \in rows : x.assetid <= y.assetid
         IN  <<first>> \o OrderByAssetid(rows \ {first})

\* Select assetid, userid, localname, bucketkey From assets
\* [ Where userid = ? ] Order By assetid Asc
SelectAssets(userid) ==
    OrderByAssetid({a \in assets : Placeholders(userid) = 1 => a.userid = userid})

WrongArguments == Error("Incorrect arguments to mysqld_stmt_execute")

\* What dbConn.execute( sql, parameters ) may answer: the statement fails
\* when a parameter is missing for a placeholder; when a parameter is bound
\* that has no placeholder it is dropped or the statement fails, as the
\* driver and the server have it.
ExecuteSelect(userid) ==
    IF Len(Parameters(userid)) < Placeholders(userid)
    THEN {Failed(WrongArguments)}
    ELSE IF Len(Parameters(userid)) > Placeholders(userid)
    THEN {Ok(SelectAssets(userid)), Failed(WrongArguments)}
    ELSE {Ok(SelectAssets(userid))}

\* response.json( { message: "success", data: rows } ), and
\* response.status( 500 ).json( { message: err.message, data: [] } )
get_images_success(rows) == [status |-> 200, message |-> "success", data |-> rows]
get_images_error(err)    == [status |-> 500, message |-> err.message, data |-> <<>>]

\* Entry: the filter is read; a filter that is not numeric is answered 500,
\* and else the handler awaits the wrapped try_get_images.  The handler has
\* no connection of its own.
get_images ==
    /\ lst.pc = "idle"
    /\ \E query \in Queries :
          LET userid == FilterOf(query) IN
          lst' = IF HasFilter(query) /\ IsNaN(query[1])
                 THEN [lst EXCEPT !.pc = "done",
                          !.response = Append(@, get_images_error(
                              Error("get_images(): userid is not numeric")))]
                 ELSE [lst EXCEPT !.pc = "connect", !.userid = userid,
                          !.pr = pRetry_pending,
                          !.after = /\ Len(del.response) > 0
                                    /\ del.response[1].status = 200]
    /\ UNCHANGED << uvars, tables, bucket, faults, del, rtv, ilb, giwl >>

\* try_get_images: dbConn = await get_dbConn(), inside the try block.
try_get_images_connect ==
    /\ lst.pc = "connect"
    /\ \E o \in Call(Ok(0), DbFault) :
          /\ CountFault(o)
          /\ lst' = IF o.ok
                    THEN [lst EXCEPT !.pc = "execute", !.conn = "open"]
                    ELSE [lst EXCEPT !.pc = "end", !.result = o]
    /\ UNCHANGED << uvars, tables, bucket, del, rtv, ilb, giwl >>

\* try_get_images: await dbConn.execute( sql, parameters ).
try_get_images_execute ==
    /\ lst.pc = "execute"
    /\ \E o \in ExecuteSelect(lst.userid) \cup Transient(DbFault) :
          /\ CountFault(o)
          /\ lst' = [lst EXCEPT !.pc = "end", !.result = o]
    /\ UNCHANGED << uvars, tables, bucket, del, rtv, ilb, giwl >>

\* try_get_images, the finally block: await dbConn.end(), whose failure is
\* ignored; the wrapper then settles or starts over, and when it settled the
\* handler sends its response.
try_get_images_end ==
    /\ lst.pc = "end"
    /\ LET st == pRetry(lst.pr, lst.result)
           l  == [lst EXCEPT !.pr = st,
                             !.conn = IF @ = "open" THEN "closed" ELSE @]
       IN  lst' = IF st.status = "resolved"
                  THEN [l EXCEPT !.pc = "done",
                           !.response = Append(@, get_images_success(st.value[1]))]
                  ELSE IF st.status = "rejected"
                  THEN [l EXCEPT !.pc = "done",
                           !.response = Append(@, get_images_error(st.error))]
                  ELSE [l EXCEPT !.pc = "connect"]
    /\ UNCHANGED << uvars, tables, bucket, faults, del, rtv, ilb, giwl >>

\* --------------------------------------------------------------- get_image

\* request.params[ 'assetid' ] of get_image and of get_image_labels.
AssetParams == {"1001", "1002", "abc"}

\* What validate_assetid of get_image makes of the rows its query selected.
get_image_rows(rows) ==
    IF Cardinality(rows) < 1 THEN Failed(Error("get_image: no such assetid"))
    ELSE IF Cardinality(rows) > 1
         THEN Failed(Error("get_image: unexpected duplicate assetid"))
    ELSE Ok(CHOOSE row \in rows : TRUE)


\* transformToString() without its encoding: the bytes as they are.
transformToString_raw(body) == body

\* img_bytes.transformToString( 'base64' )
transformToString(body) ==
    CASE body = "img1" -> "aW1nMQ=="
      [] body = "img2" -> "aW1nMg=="
      [] OTHER         -> ""

\* response.json( { message: "success", userid, local_filename, data } ), and
\* response.status( 500 ).json( { message: err.message, userid: -1 } )
get_image_success(row, img_str) ==
    [status |-> 200, message |-> "success", userid |-> row.userid,
     local_filename |-> row.localname, data |-> img_str]
get_image_error(err) == [status |-> 500, message |-> err.message, userid |-> -1]

\* get_image leaves its try block with its success response, or through its
\* catch block; the finally block is next.
get_image_respond(g, resp) ==
    [g EXCEPT !.response = Append(@, resp), !.pc = "finally"]

\* Entry: the connection is acquired and the assetid is read; an assetid
\* that is not numeric goes to the catch block, and else the handler awaits
\* the wrapped validate_assetid.
get_image ==
    /\ rtv.pc = "idle"
    /\ \E param \in AssetParams :
          LET g == [rtv EXCEPT !.conn = "open", !.assetid = param] IN
          rtv' = IF IsNaN(param)
                 THEN get_image_respond(g, get_image_error(
                          Error("get_image: assetid is not numeric")))
                 ELSE [g EXCEPT !.pc = "validate_assetid",
                          !.pr = pRetry_pending,
                          !.known = \E r \in Reqs :
                              /\ Len(response[r]) > 0
                              /\ response[r][1].status = 200
                              /\ response[r][1].assetid = ParseInt(param)]
    /\ UNCHANGED << uvars, tables, bucket, faults, del, lst, ilb, giwl >>

\* One invocation of validate_assetid by its wrapper: Select userid,
\* localname, bucketkey From assets Where assetid = ?.
get_image_validate_assetid ==
    /\ rtv.pc = "validate_assetid"
    /\ \E o \in Call(get_image_rows(
                     {a \in assets : a.assetid = ParseInt(rtv.assetid)}), DbFault) :
          LET st == pRetry(rtv.pr, o) IN
          /\ CountFault(o)
          /\ rtv' = IF st.status = "resolved"
                    THEN [rtv EXCEPT !.pr = st, !.row = st.value, !.pc = "download"]
                    ELSE IF st.status = "rejected"
                    THEN get_image_respond([rtv EXCEPT !.pr = st],
                                           get_image_error(st.error))
                    ELSE [rtv EXCEPT !.pr = st]
    /\ UNCHANGED << uvars, tables, bucket, del, lst, ilb, giwl >>

\* What GetObjectCommand( { Key: bkt_key } ) answers with.
GetObject(bkt_key) ==
    IF \E o \in bucket : o.Key = bkt_key
    THEN {Ok(o.Body) : o \in {x \in bucket : x.Key = bkt_key}}
    ELSE {Failed(Error("The specified key does not exist."))}

\* download_image_str, called once and not wrapped: await bkt.send( cmd ).
download_image_str ==
    /\ rtv.pc = "download"
    /\ \E o \in GetObject(rtv.row[1].bucketkey) \cup Transient(S3Fault) :
          /\ CountFault(o)
          /\ rtv' = IF o.ok
                    THEN [rtv EXCEPT !.calls = @ + 1, !.body = o.value,
                                     !.pc = "transform"]
                    ELSE get_image_respond([rtv EXCEPT !.calls = @ + 1],
                                           get_image_error(o.error))
    /\ UNCHANGED << uvars, tables, bucket, del, lst, ilb, giwl >>

\* download_image_str: await img_bytes.transformToString( 'base64' ), the
\* read of the body; then the success response.
download_image_str_transform ==
    /\ rtv.pc = "transform"
    /\ \E o \in Call(Ok(transformToString(rtv.body[1])), S3Fault) :
          /\ CountFault(o)
          /\ rtv' = get_image_respond(rtv,
                       IF o.ok THEN get_image_success(rtv.row[1], o.value[1])
                       ELSE get_image_error(o.error))
    /\ UNCHANGED << uvars, tables, bucket, del, lst, ilb, giwl >>

\* The finally block: await dbConn.end().
get_image_finally ==
    /\ rtv.pc = "finally"
    /\ rtv' = [rtv EXCEPT !.conn = "closed", !.pc = "done"]
    /\ UNCHANGED << uvars, tables, bucket, faults, del, lst, ilb, giwl >>

\* -------------------------------------------------------- get_image_labels

\* What validate_assetid of get_image_labels makes of the rows its query
\* selected.
get_image_labels_rows(rows) ==
    IF Cardinality(rows) < 1 THEN Failed(Error("no such assetid"))
    ELSE IF Cardinality(rows) > 1 THEN Failed(Error("unexpected duplicate assetid"))
    ELSE Ok(0)

\* The label names in ascending order.
LabelNames == << "Cat", "Dog" >>

\* n times the row.
RECURSIVE Copies(_, _)
Copies(row, n) == IF n = 0 THEN <<>> ELSE <<row>> \o Copies(row, n - 1)

\* The rows of the bag in some order, each as often as it is there.
RECURSIVE Rows(_, _)
Rows(rows, bag) ==
    IF rows = {} THEN <<>>
    ELSE LET row == CHOOSE x \in rows : TRUE
         IN  Copies(row, CopiesIn(row, bag)) \o Rows(rows \ {row}, bag)

\* Select label, confidence From labels Where assetid = ? Order By label
\* Asc, each row as { label, confidence: parseInt( confidence ) }.
RECURSIVE SelectLabels(_, _)
SelectLabels(assetid, i) ==
    IF i > Len(LabelNames) THEN <<>>
    ELSE LET rows == {row \in BagToSet(labels) :
                         row.assetid = assetid /\ row.label = LabelNames[i]}
             seq  == Rows(rows, labels)
         IN  [k \in 1 .. Len(seq) |->
                 [label |-> seq[k].label, confidence |-> seq[k].confidence]]
             \o SelectLabels(assetid, i + 1)

\* response.json( { message: "success", data: records } ), and
\* response.status( 500 ).json( { message: err.message, data: [] } )
get_image_labels_success(records) ==
    [status |-> 200, message |-> "success", data |-> records]
get_image_labels_error(err) ==
    [status |-> 500, message |-> err.message, data |-> <<>>]

\* Entry: the connection is acquired and the assetid is read; the handler
\* awaits the wrapped validate_assetid.
get_image_labels ==
    /\ ilb.pc = "idle"
    /\ \E param \in AssetParams \cap Numerals :
          ilb' = [ilb EXCEPT !.pc = "validate_assetid", !.conn = "open",
                             !.assetid = param,
                             !.pr["validate_assetid"] = pRetry_pending]
    /\ UNCHANGED << uvars, tables, bucket, faults, del, lst, rtv, giwl >>

\* One invocation of validate_assetid by its wrapper: Select assetid From
\* assets Where assetid = ?.  The handler has no finally block: after its
\* response it is over, with its connection as it is.
get_image_labels_validate_assetid ==
    /\ ilb.pc = "validate_assetid"
    /\ \E o \in Call(get_image_labels_rows(
                     {a \in assets : a.assetid = ParseInt(ilb.assetid)}), DbFault) :
          LET st == pRetry(ilb.pr["validate_assetid"], o)
              l  == [ilb EXCEPT !.pr["validate_assetid"] = st]
          IN  /\ CountFault(o)
              /\ ilb' = IF st.status = "resolved"
                        THEN [l EXCEPT !.pc = "fetch_labels",
                                 !.pr["fetch_labels"] = pRetry_pending]
                        ELSE IF st.status = "rejected"
                        THEN [l EXCEPT !.pc = "done",
                                 !.response = Append(@, get_image_labels_error(st.error))]
                        ELSE l
    /\ UNCHANGED << uvars, tables, bucket, del, lst, rtv, giwl >>

\* One invocation of fetch_labels by its wrapper.
fetch_labels ==
    /\ ilb.pc = "fetch_labels"
    /\ \E o \in Call(Ok(SelectLabels(ParseInt(ilb.assetid), 1)), DbFault) :
          LET st == pRetry(ilb.pr["fetch_labels"], o)
              l  == [ilb EXCEPT !.pr["fetch_labels"] = st]
          IN  /\ CountFault(o)
              /\ ilb' = IF st.status = "resolved"
                        THEN [l EXCEPT !.pc = "done",
                                 !.response = Append(@, get_image_labels_success(st.value[1]))]
                        ELSE IF st.status = "rejected"
                        THEN [l EXCEPT !.pc = "done",
                                 !.response = Append(@, get_image_labels_error(st.error))]
                        ELSE l
    /\ UNCHANGED << uvars, tables, bucket, del, lst, rtv, giwl >>

\* ---------------------------------------------------- get_images_with_label

\* request.params[ 'label' ]: a whole label in another case, a part of one,
\* and a text that is in no label.
LabelParams == {"cat", "do", "bird"}

\* label Like `%${ label }%`, which does not tell upper from lower case.
Like(name, label) ==
    CASE label = "cat" -> name = "Cat"
      [] label = "do"  -> name = "Dog"
      [] OTHER         -> FALSE

\* Where a label name stands in ascending order.
LabelIndex(name) == CHOOSE i \in DOMAIN LabelNames : LabelNames[i] = name

\* Order By assetid Asc, label Asc: each row as often as the table has it.
RECURSIVE OrderByAssetidLabel(_)
OrderByAssetidLabel(rows) ==
    IF rows = {} THEN <<>>
    ELSE LET first == CHOOSE x \in rows : \A y \in rows :
                          \/ x.assetid < y.assetid
                          \/ /\ x.assetid = y.assetid
                             /\ LabelIndex(x.label) <= LabelIndex(y.label)
         IN  Copies(first, CopiesIn(first, labels))
             \o OrderByAssetidLabel(rows \ {first})

\* Select assetid, label, confidence From labels Where label Like ?
\* Order By assetid Asc, label Asc
SelectLike(label) ==
    OrderByAssetidLabel({row \in BagToSet(labels) : Like(row.label, label)})

\* response.json( { message: "success", data: rows } ), and
\* response.status( 500 ).json( { message: err.message, data: [] } )
get_images_with_label_success(rows) ==
    [status |-> 200, message |-> "success", data |-> rows]
get_images_with_label_error(err) ==
    [status |-> 500, message |-> err.message, data |-> <<>>]

\* Entry: the connection is acquired, once for the request, and the label is
\* read; the handler awaits the wrapped fetch_images.
get_images_with_label ==
    /\ giwl.pc = "idle"
    /\ \E label \in LabelParams :
          giwl' = [giwl EXCEPT !.pc = "execute", !.conn = "open",
                               !.label = label, !.pr = pRetry_pending]
    /\ UNCHANGED << uvars, tables, bucket, faults, del, lst, rtv, ilb >>

\* fetch_images: await dbConn.execute( lookup_sql, [ pattern, ] ), on the
\* connection of the request as the attempt finds it.  first is the failure
\* of the first attempt, if it failed, and transients counts the attempts
\* that failed transiently.
fetch_images_execute ==
    /\ giwl.pc = "execute"
    /\ \E o \in IF giwl.conn = "open"
                THEN Call(Ok(SelectLike(giwl.label)), DbFault)
                ELSE {Failed(ClosedFault)} :
          /\ CountFault(o)
          /\ giwl' = [giwl EXCEPT !.pc = "end", !.result = o,
                         !.first = IF giwl.pr.attempts = 0 THEN o.error ELSE @,
                         !.transients = IF IsTransient(o) THEN @ + 1 ELSE @]
    /\ UNCHANGED << uvars, tables, bucket, del, lst, rtv, ilb >>

\* fetch_images, the finally block: await dbConn.end(), whose failure is
\* ignored; the wrapper then settles or starts over, and when it settled the
\* handler sends its response.  The handler has no finally block.
fetch_images_end ==
    /\ giwl.pc = "end"
    /\ LET st == pRetry(giwl.pr, giwl.result)
           g  == [giwl EXCEPT !.pr = st, !.conn = "closed"]
       IN  giwl' = IF st.status = "resolved"
                   THEN [g EXCEPT !.pc = "done",
                            !.response = Append(@,
                                get_images_with_label_success(st.value[1]))]
                   ELSE IF st.status = "rejected"
                   THEN [g EXCEPT !.pc = "done",
                            !.response = Append(@,
                                get_images_with_label_error(st.error))]
                   ELSE [g EXCEPT !.pc = "execute"]
    /\ UNCHANGED << uvars, tables, bucket, faults, del, lst, rtv, ilb >>

\* ---------------------------------------------------- get_dbConn at entry

\* let dbConn = await get_dbConn() stands before the try block of post_image,
\* delete_images, get_image, get_image_labels and get_images_with_label.  When
\* it rejects, the handler is over at that line: its catch block and its
\* finally block are not entered, it has no connection and it has sent
\* nothing.
post_image_rejected(r) ==
    /\ pc[r] = "idle"
    /\ faults < MaxFaults
    /\ faults' = faults + 1
    /\ pc' = [pc EXCEPT ![r] = "rejected"]
    /\ UNCHANGED << assets, labels, nextAssetId, bucket, req, conn, txn, pr,
                    step_pc, lab_i, detect, promAll, local, calls, seen,
                    response, hvars >>

delete_images_rejected ==
    /\ del.pc = "idle"
    /\ faults < MaxFaults
    /\ faults' = faults + 1
    /\ del' = [del EXCEPT !.pc = "rejected"]
    /\ UNCHANGED << uvars, tables, bucket, lst, rtv, ilb, giwl >>

get_image_rejected ==
    /\ rtv.pc = "idle"
    /\ faults < MaxFaults
    /\ faults' = faults + 1
    /\ rtv' = [rtv EXCEPT !.pc = "rejected"]
    /\ UNCHANGED << uvars, tables, bucket, del, lst, ilb, giwl >>

get_image_labels_rejected ==
    /\ ilb.pc = "idle"
    /\ faults < MaxFaults
    /\ faults' = faults + 1
    /\ ilb' = [ilb EXCEPT !.pc = "rejected"]
    /\ UNCHANGED << uvars, tables, bucket, del, lst, rtv, giwl >>

get_images_with_label_rejected ==
    /\ giwl.pc = "idle"
    /\ faults < MaxFaults
    /\ faults' = faults + 1
    /\ giwl' = [giwl EXCEPT !.pc = "rejected"]
    /\ UNCHANGED << uvars, tables, bucket, del, lst, rtv, ilb >>

\* ------------------------------------------------------ the specifications

\* The steps of the uploads.
UploadNext ==
    \E r \in Reqs :
        \/ post_image(r)
        \/ lookup_user(r)
        \/ upload_to_bucket(r)
        \/ update_db_begin(r)
        \/ update_db_execute(r)
        \/ update_db_commit(r)
        \/ detect_labels(r)
        \/ post_image_join(r)
        \/ update_labels_begin(r)
        \/ update_labels_execute(r)
        \/ update_labels_commit(r)
        \/ post_image_finally(r)

\* Uploads next to one Bulk Clear, at any interleaving.
ClearNext ==
    \/ UploadNext
    \/ delete_images
    \/ get_keys
    \/ clear_db_begin
    \/ clear_db_execute
    \/ clear_db_commit
    \/ clear_bkt
    \/ delete_images_finally

ClearSpec == MixInit /\ [][ClearNext]_vars

\* Uploads next to one Retrieve, at any interleaving.
RetrieveNext ==
    \/ UploadNext
    \/ get_image
    \/ get_image_validate_assetid
    \/ download_image_str
    \/ download_image_str_transform
    \/ get_image_finally

RetrieveSpec == MixInit /\ [][RetrieveNext]_vars

\* Uploads next to one List Labels, at any interleaving.
LabelsNext ==
    \/ UploadNext
    \/ get_image_labels
    \/ get_image_labels_validate_assetid
    \/ fetch_labels

LabelsSpec == MixInit /\ [][LabelsNext]_vars

\* No request is being served.
Quiescent ==
    /\ \A r \in Reqs : pc[r] \in {"idle", "done"}
    /\ del.pc \in {"idle", "done"}
    /\ lst.pc \in {"idle", "done"}

\* A client that sends a request once it has the answer to the one before.
post_image_next(r) == Quiescent /\ post_image(r)
delete_images_next == Quiescent /\ delete_images
get_images_next    == Quiescent /\ get_images

\* Two uploads, one Bulk Clear and one List, one after the other in any
\* order.
QuietNext ==
    \/ \E r \in Reqs :
        \/ post_image_next(r)
        \/ lookup_user(r)
        \/ upload_to_bucket(r)
        \/ update_db_begin(r)
        \/ update_db_execute(r)
        \/ update_db_commit(r)
        \/ detect_labels(r)
        \/ post_image_join(r)
        \/ update_labels_begin(r)
        \/ update_labels_execute(r)
        \/ update_labels_commit(r)
        \/ post_image_finally(r)
    \/ delete_images_next
    \/ get_keys
    \/ clear_db_begin
    \/ clear_db_execute
    \/ clear_db_commit
    \/ clear_bkt
    \/ delete_images_finally
    \/ get_images_next
    \/ try_get_images_connect
    \/ try_get_images_execute
    \/ try_get_images_end

QuietSpec == MixInit /\ [][QuietNext]_vars

\* No handler is in the middle of a request: each is still to be called, or
\* is over.
AtRest ==
    /\ \A r \in Reqs : pc[r] \in {"idle", "done", "rejected"}
    /\ del.pc  \in {"idle", "done", "rejected"}
    /\ lst.pc  \in {"idle", "done"}
    /\ rtv.pc  \in {"idle", "done", "rejected"}
    /\ ilb.pc  \in {"idle", "done", "rejected"}
    /\ giwl.pc \in {"idle", "done", "rejected"}

\* None of the handlers other than post_image has been called.
NotCalled ==
    /\ del.pc = "idle" /\ lst.pc = "idle" /\ rtv.pc = "idle"
    /\ ilb.pc = "idle" /\ giwl.pc = "idle"

\* The steps of the handlers other than post_image, after entry.
HandlerSteps ==
    \/ get_keys
    \/ clear_db_begin
    \/ clear_db_execute
    \/ clear_db_commit
    \/ clear_bkt
    \/ delete_images_finally
    \/ try_get_images_connect
    \/ try_get_images_execute
    \/ try_get_images_end
    \/ get_image_validate_assetid
    \/ download_image_str
    \/ download_image_str_transform
    \/ get_image_finally
    \/ get_image_labels_validate_assetid
    \/ fetch_labels
    \/ fetch_images_execute
    \/ fetch_images_end

\* The steps of the uploads after entry.
UploadSteps ==
    \E r \in Reqs :
        \/ lookup_user(r)
        \/ upload_to_bucket(r)
        \/ update_db_begin(r)
        \/ update_db_execute(r)
        \/ update_db_commit(r)
        \/ detect_labels(r)
        \/ post_image_join(r)
        \/ update_labels_begin(r)
        \/ update_labels_execute(r)
        \/ update_labels_commit(r)
        \/ post_image_finally(r)

\* Two uploads and one request to one of the other handlers, one after the
\* other in any order.  A request arrives at a server at rest, and its
\* connection is acquired or is not.
ServeNext ==
    \/ \E r \in Reqs : 
        \/ AtRest /\ post_image(r)
        \/ AtRest /\ post_image_rejected(r)
    \/ AtRest /\ NotCalled /\ delete_images
    \/ AtRest /\ NotCalled /\ delete_images_rejected
    \/ AtRest /\ NotCalled /\ get_images
    \/ AtRest /\ NotCalled /\ get_image
    \/ AtRest /\ NotCalled /\ get_image_rejected
    \/ AtRest /\ NotCalled /\ get_image_labels
    \/ AtRest /\ NotCalled /\ get_image_labels_rejected
    \/ AtRest /\ NotCalled /\ get_images_with_label
    \/ AtRest /\ NotCalled /\ get_images_with_label_rejected
    \/ UploadSteps
    \/ HandlerSteps

ServeSpec == MixInit /\ [][ServeNext]_vars

\* Every step that is enabled is eventually taken, as in FairSpec.
FairServeSpec == ServeSpec /\ WF_vars(ServeNext)


\* ------------------------------------------------------------------ claims

AssetIds          == {a.assetid : a \in assets}
AssetsOf(r)       == {a \in assets : a.bucketkey = local[r].bkt_key}
LabelRowsOf(id)   == {row \in BagToSet(labels) : row.assetid = id}
AllLabelRows      == BagToSet(labels) \cup
                     UNION {BagToSet(txn[r].labels) : r \in Reqs}
Responded(r)      == Len(response[r]) > 0
UploadFailed(r)   == /\ calls[r]["upload_to_bucket"] > 0
                     /\ pc[r] \in {"finally", "done"}
                     /\ local[r].bkt_key = NoKey

\* C1: every Label row, committed or still in a transaction, carries the id
\* of a committed Asset row, and a request invokes update_labels only once
\* the Asset row of that same request is committed.
C1_LabelsReferenceCommittedAsset ==
    /\ \A row \in AllLabelRows : row.assetid \in AssetIds
    /\ \A r \in Reqs :
          calls[r]["update_labels"] > 0 =>
              \E a \in AssetsOf(r) : a.assetid = local[r].assetid

\* One request has label rows in an open transaction while the label rows
\* of the other are committed.
C1_Witness ==
    \E r \in Reqs : txn[r].labels # EmptyBag /\ labels # EmptyBag

\* C2 (as claimed): a request gets one response, which is the success
\* response with the id of the Asset row it committed, or, when a lookup
\* selected zero rows, 400 "no such userid" with assetid -1, or else 500
\* with assetid -1.
C2_ResponseClasses ==
    \A r \in Reqs :
        Responded(r) =>
            LET resp == response[r][1] IN
            /\ Len(response[r]) = 1
            /\ IF pr[r]["update_labels"].status = "resolved"
               THEN /\ resp.status = 200 /\ resp.message = "success"
                    /\ \E a \in AssetsOf(r) : a.assetid = resp.assetid
               ELSE IF seen[r].zero_rows
               THEN resp = [status |-> 400, message |-> "no such userid", assetid |-> -1]
               ELSE resp.status = 500 /\ resp.assetid = -1

\* C3: a request whose owner id selects no user row never invokes the
\* upload, the registration, the detection or the label persistence, and
\* there is no Asset row of that owner, no uncommitted row and no object
\* under a key of that request.
C3_UnknownOwnerCreatesNothing ==
    \A r \in Reqs :
        (pc[r] # "idle" /\ RowsOfUser(req[r].userid) = <<>>) =>
            /\ \A u \in Units \ {"lookup_user"} : calls[r][u] = 0
            /\ txn[r] = NoTxn
            /\ \A a \in assets : a.userid # req[r].userid
            /\ \A row \in AllLabelRows :
                  \A a \in assets : a.assetid = row.assetid => a.userid # req[r].userid
            /\ \A o \in bucket : o.Key[2] # uuidv4(r)

\* A request for an id of nobody has been answered 400 and is over.
C3_Witness ==
    \E r \in Reqs :
        /\ pc[r] = "done"
        /\ RowsOfUser(req[r].userid) = <<>>
        /\ response[r][1].status = 400

\* C4: when label detection failed and the registration succeeded, in
\* whichever order, the Asset row of the request is committed with the id
\* the registration returned, no Label row carries that id, and
\* update_labels was never invoked.
C4_DetectFailsAssetStays ==
    \A r \in Reqs :
        (detect[r] = "rejected" /\ pr[r]["update_db"].status = "resolved") =>
            /\ \E a \in AssetsOf(r) :
                  /\ a.assetid = pr[r]["update_db"].value[1]
                  /\ a.userid = req[r].userid
                  /\ a.localname = req[r].local_filename
            /\ LabelRowsOf(pr[r]["update_db"].value[1]) = {}
            /\ calls[r]["update_labels"] = 0

\* Detection failed, registration committed, and the request is over with
\* its 500 response.
C4_Witness ==
    \E r \in Reqs :
        /\ detect[r] = "rejected"
        /\ pr[r]["update_db"].status = "resolved"
        /\ pc[r] = "done"
        /\ response[r][1].status = 500

\* C5: a request has exactly one Asset row under its object key once its
\* registration succeeded and none before or otherwise; after the success
\* no further attempt runs and no uncommitted Asset row is left.
C5_ExactlyOneAssetRow ==
    \A r \in Reqs :
        /\ Cardinality(AssetsOf(r)) =
              IF pr[r]["update_db"].status = "resolved" THEN 1 ELSE 0
        /\ pr[r]["update_db"].status = "resolved" =>
              step_pc[r]["update_db"] = "none" /\ txn[r].assets = {}
        /\ (Responded(r) /\ response[r][1].status = 200) =>
              Cardinality(AssetsOf(r)) = 1

\* A registration that succeeded at its third attempt, in a request that
\* was answered with success.
C5_Witness ==
    \E r \in Reqs :
        /\ pr[r]["update_db"].status = "resolved"
        /\ pr[r]["update_db"].attempts = Retries + 1
        /\ Responded(r) /\ response[r][1].status = 200

\* C6: when Persist Labels succeeded the Label rows of the request's asset
\* are exactly one row per detected label; as long as it has not succeeded,
\* and when it failed, there is none.
C6_LabelsAllOrNothing ==
    \A r \in Reqs :
        LET st  == pr[r]["update_labels"]
            id  == local[r].assetid
            lbs == local[r].rkg_labels
        IN  IF st.status = "resolved"
            THEN /\ \A i \in 1 .. Len(lbs) : CopiesIn(LabelRow(id, lbs[i]), labels) = 1
                 /\ Cardinality(LabelRowsOf(id)) = Len(lbs)
            ELSE LabelRowsOf(id) = {}

\* Persist Labels succeeded at a retry, for two detected labels.
C6_Witness ==
    \E r \in Reqs :
        /\ pr[r]["update_labels"].status = "resolved"
        /\ pr[r]["update_labels"].attempts > 1
        /\ Len(local[r].rkg_labels) = 2

\* The result a wrapped unit of request r returns when it succeeds.
ResultOf(r, s) ==
    CASE s = "lookup_user"   -> {<<RowsOfUser(req[r].userid)[1].username>>}
      [] s = "update_db"     -> {<<a.assetid>> : a \in AssetsOf(r)}
      [] s = "update_labels" -> {<<0>>}

\* The state of every wrapper agrees with the invocations made of its unit.
C7_Bounded ==
    \A r \in Reqs : \A s \in Steps :
        LET st == pr[r][s] IN
        /\ calls[r][s] <= 3
        /\ calls[r][s] \in {st.attempts, st.attempts + 1}
        /\ st.status = "resolved" =>
              /\ calls[r][s] = st.attempts
              /\ step_pc[r][s] = "none"
              /\ st.value \in ResultOf(r, s)
        /\ st.status = "rejected" =>
              /\ st.attempts = 3
              /\ calls[r][s] = st.attempts
              /\ step_pc[r][s] = "none"
              /\ st.error = seen[r].last_error[s]
              /\ s # "update_db" =>
                    response[r] = <<ErrorResponse(seen[r].last_error[s])>>
              /\ (s = "update_db" /\ detect[r] # "rejected") =>
                    promAll[r] = [status |-> "rejected", error |-> seen[r].last_error[s]]

\* C7: each wrapped unit is invoked at most 3 times (retries: 2) and never
\* after an invocation succeeded; the wrapper returns the result of the
\* successful invocation, and after three failures rejects with the failure
\* of the last one, which is what the handler answers with; and a wrapper
\* that was started is eventually settled, for good.
C7_RetryWrapper ==
    /\ []C7_Bounded
    /\ <>[](\A r \in Reqs : \A s \in Steps : pr[r][s].status # "pending")

\* A lookup that selected zero rows at an earlier attempt and was rejected
\* with the transient failure of its last attempt.
C7_Witness ==
    \E r \in Reqs :
        /\ pr[r]["lookup_user"].status = "rejected"
        /\ pr[r]["lookup_user"].error = DbFault
        /\ seen[r].zero_rows

\* C8 (as claimed): when the request is answered 400, the lookup query was
\* executed once, plus once for every lookup that failed transiently.
C8_CallerErrorNotRetried ==
    \A r \in Reqs :
        (Responded(r) /\ response[r][1].status = 400) =>
            calls[r]["lookup_user"] = 1 + seen[r].lookup_transients

C10_Closed ==
    \A r \in Reqs :
        /\ pc[r] = "done" => conn[r] = "closed" /\ Len(response[r]) = 1
        /\ pc[r] \notin {"idle", "done"} => conn[r] = "open"
        /\ Responded(r) <=> pc[r] \in {"finally", "done"}

\* C10: a request that is over, after whichever response (success, 400 or
\* 500), has sent one response and its connection is closed; and every
\* request that has responded eventually has its connection closed, for good.
C10_ConnectionClosedOnEveryExit ==
    /\ []C10_Closed
    /\ <>[](\A r \in Reqs : Responded(r) => conn[r] = "closed")

\* One request is over after its 400 response, the other after a 500
\* response, both with their connection closed.
C10_Witness ==
    \E r, q \in Reqs :
        /\ pc[r] = "done" /\ pc[q] = "done"
        /\ conn[r] = "closed" /\ conn[q] = "closed"
        /\ response[r][1].status = 400
        /\ response[q][1].status = 500

\* ------------------------------------------------- claims on delete_images

DelResponded == Len(del.response) > 0
DelSucceeded == DelResponded /\ del.response[1].status = 200

\* The TRUNCATE clauses that delete_images has executed.
Truncated ==
    {delete_sql[i] : i \in 1 .. (del.clause - 1)}
        \cap {"TRUNCATE TABLE labels", "TRUNCATE TABLE assets"}

\* clear_bkt was called and blobs of the keys it was given are still there.
BktFailed == del.calls > 0 /\ \E o \in bucket : o.Key \in del.keys

\* No upload has arrived since the Bulk Clear arrived, and none was being
\* served then.
NoUploadSince == \A r \in Reqs : r \in del.before \/ pc[r] = "idle"

\* Every row that the uploads before the Bulk Clear committed is there.
NothingChanged ==
    \A r \in del.before :
        /\ pr[r]["update_db"].status = "resolved" => AssetsOf(r) # {}
        /\ pr[r]["update_labels"].status = "resolved" =>
              \A i \in 1 .. Len(local[r].rkg_labels) :
                  BagIn(LabelRow(local[r].assetid, local[r].rkg_labels[i]), labels)

DatabaseCleared == assets = {} /\ labels = EmptyBag

\* The object-store delete is issued only after get_keys and every clause of
\* clear_db succeeded, and a database failure that is answered has issued
\* none.
C11_Order ==
    /\ del.calls > 0 =>
          del.pr.status = "resolved" /\ del.clause > Len(delete_sql)
    /\ (DelResponded /\ del.response[1].message = DbFault.message) =>
          del.calls = 0

\* C11 (as claimed): blobs are deleted only after the database was cleared,
\* and when delete_images answers with an error, no upload having arrived
\* meanwhile, either every row is as it was or there is no row left.
C11_BlobsOnlyAfterDbCleared ==
    /\ C11_Order
    /\ (DelResponded /\ del.response[1].status = 500 /\ NoUploadSince) =>
          NothingChanged \/ DatabaseCleared

\* C12 (as claimed): when the object-store deletion failed, the response is
\* { message: "success" }.
C12_BucketFailureNotReported ==
    (BktFailed /\ DelResponded) => del.response = <<delete_images_success>>

\* C12 (amended): when the object-store deletion failed, the response is 500
\* with the message of that failure, both tables having been truncated; and
\* the success response is sent only when no blob of a key read is left.
C12_BucketFailureReported ==
    /\ (BktFailed /\ DelResponded) =>
          /\ del.response = <<delete_images_error(S3Fault)>>
          /\ Truncated = {"TRUNCATE TABLE labels", "TRUNCATE TABLE assets"}
    /\ DelSucceeded => ~BktFailed

\* delete_images is over after a failed object-store deletion.
C12_Witness ==
    BktFailed /\ del.pc = "done" /\ del.conn = "closed"

\* Upload r is the one upload that arrived since the Bulk Clear arrived,
\* it arrived after the Bulk Clear answered, and it was answered success.
NextUpload(r) ==
    /\ r \in del.after
    /\ \A q \in Reqs \ {r} : q \in del.before \/ pc[q] = "idle"
    /\ Responded(r) /\ response[r][1].status = 200

\* A Bulk Clear that answered success with no upload since leaves no Asset
\* row, no Label row and the counter at the restart id; a List that arrived
\* after it answers with an empty list.
C13_Cleared ==
    /\ (DelSucceeded /\ NoUploadSince) =>
          assets = {} /\ labels = EmptyBag /\ nextAssetId = FirstAssetId
    /\ (DelSucceeded /\ NoUploadSince /\ lst.after /\ Len(lst.response) > 0) =>
          lst.response[1].data = <<>>

\* C13 (as claimed): after a successful Bulk Clear there is no Asset row and
\* no Label row, a subsequent List answers with an empty list, and the next
\* successful upload is assigned the restart id.
C13_ClearThenRestartId ==
    /\ C13_Cleared
    /\ \A r \in Reqs :
          (DelSucceeded /\ NextUpload(r)) => response[r][1].assetid = FirstAssetId

\* C13 (amended): the same, but the next successful upload is assigned the
\* restart id plus the number of its registration attempts that were rolled
\* back after their insert: the restart id when its first attempt succeeded,
\* and at most Retries more.
C13_ClearThenRestartIdOrAbove ==
    /\ C13_Cleared
    /\ \A r \in Reqs :
          (DelSucceeded /\ NextUpload(r)) =>
              /\ response[r][1].assetid >= FirstAssetId
              /\ response[r][1].assetid - FirstAssetId < pr[r]["update_db"].attempts
              /\ response[r][1].assetid <= FirstAssetId + Retries

\* An upload with two labels, then the Bulk Clear, then a List that answered
\* success, then an upload that was assigned the restart id.
C13_Witness ==
    \E q, r \in Reqs :
        /\ q \in del.before /\ Len(local[q].rkg_labels) = 2
        /\ pr[q]["update_labels"].status = "resolved"
        /\ DelSucceeded /\ Cardinality(del.keys) > 0
        /\ lst.after /\ lst.response = <<get_images_success(<<>>)>>
        /\ NextUpload(r) /\ response[r][1].assetid = FirstAssetId

\* ------------------------------------------- claims on the read handlers

\* The wrapped validate_assetid of get_image_labels, of get_image, ended
\* with the failure it throws for an assetid that selects no row.
IlbNoSuchAssetid ==
    /\ ilb.pr["validate_assetid"].status = "rejected"
    /\ ilb.pr["validate_assetid"].error = get_image_labels_rows({}).error
RtvNoSuchAssetid ==
    /\ rtv.pr.status = "rejected"
    /\ rtv.pr.error = get_image_rows({}).error

\* C14 (as claimed): List Labels for an assetid that selects no Asset row
\* is answered with a 4xx status and { message: "no such assetid",
\* data: [] }, and a 5xx status is used for other failures only.
C14_UnknownAssetidIsClientError ==
    (Len(ilb.response) > 0 /\ IlbNoSuchAssetid) =>
        /\ ilb.response[1].status \in 400 .. 499
        /\ ilb.response[1].message = "no such assetid"
        /\ ilb.response[1].data = <<>>

\* Retrieve reads the object store only once its validate_assetid resolved.
C15_NoRead == rtv.calls > 0 => rtv.pr.status = "resolved"

\* C15 (as claimed): Retrieve for an assetid that selects no Asset row is
\* answered with a 4xx status and { message: "no such assetid",
\* userid: -1 }, and reads nothing from the object store.
C15_UnknownAssetidIsClientError ==
    /\ C15_NoRead
    /\ (Len(rtv.response) > 0 /\ RtvNoSuchAssetid) =>
          /\ rtv.response[1].status \in 400 .. 499
          /\ rtv.response[1].message = "no such assetid"
          /\ rtv.response[1].userid = -1

\* Upload r was answered success with the assetid that Retrieve was asked
\* for, and Retrieve has answered.
Retrieved(r) ==
    /\ Responded(r) /\ response[r][1].status = 200
    /\ Len(rtv.response) > 0
    /\ ~IsNaN(rtv.assetid)
    /\ ParseInt(rtv.assetid) = response[r][1].assetid

\* C16: when an upload was answered success and Retrieve of the assetid it
\* returned answers success, whatever the other upload did meanwhile, the
\* data decodes to the bytes that were uploaded, and the filename and the
\* owner id are those of the upload; and a Retrieve that arrived after the
\* upload's answer answers success unless one of its calls failed
\* transiently.
C16_RoundTrip ==
    \A r \in Reqs :
        Retrieved(r) =>
            LET resp == rtv.response[1] IN
            /\ resp.status = 200 =>
                  /\ FromBase64(resp.data) = FromBase64(req[r].data)
                  /\ resp.local_filename = req[r].local_filename
                  /\ resp.userid = req[r].userid
            /\ rtv.known =>
                  \/ resp.status = 200
                  \/ resp.message \in {DbFault.message, S3Fault.message}

\* Both uploads were answered success, and a Retrieve that arrived after
\* them was answered success with the bytes of the second one.
C16_Witness ==
    /\ \A r \in Reqs : Responded(r) /\ response[r][1].status = 200
    /\ rtv.known /\ rtv.pc = "done"
    /\ rtv.response[1].status = 200
    /\ rtv.response[1].data = "aW1nMg=="
    /\ Retrieved(2)

\* ------------------------------------------- claims on the upload pipeline

\* C17: the object upload is invoked only after the owner lookup resolved,
\* the registration and the label detection only after the object upload
\* succeeded, the label persistence only after both the registration and the
\* label detection resolved; and once a step failed for good (the lookup,
\* the upload, the registration or the detection), no step after it is ever
\* invoked, and the request is not answered success.
C17_SequentialPipeline ==
    \A r \in Reqs :
        /\ calls[r]["upload_to_bucket"] > 0 =>
              pr[r]["lookup_user"].status = "resolved"
        /\ (calls[r]["update_db"] > 0 \/ calls[r]["detect_labels"] > 0) =>
              /\ calls[r]["upload_to_bucket"] = 1
              /\ local[r].bkt_key # NoKey
        /\ calls[r]["update_labels"] > 0 =>
              /\ pr[r]["update_db"].status = "resolved"
              /\ detect[r] = "resolved"
        /\ pr[r]["lookup_user"].status = "rejected" =>
              \A u \in Units \ {"lookup_user"} : calls[r][u] = 0
        /\ UploadFailed(r) =>
              \A u \in {"update_db", "detect_labels", "update_labels"} :
                  calls[r][u] = 0
        /\ (pr[r]["update_db"].status = "rejected" \/ detect[r] = "rejected") =>
              calls[r]["update_labels"] = 0
        /\ (\/ \E s \in Steps : pr[r][s].status = "rejected"
            \/ UploadFailed(r)
            \/ detect[r] = "rejected") =>
              (Responded(r) => response[r][1].status # 200)

\* The registration of a request failed three times after its label
\* detection had succeeded, and the request is over without any label
\* persistence.
C17_Witness ==
    \E r \in Reqs :
        /\ pr[r]["update_db"].status = "rejected"
        /\ detect[r] = "resolved"
        /\ pc[r] = "done"
        /\ calls[r]["update_labels"] = 0

\* C18 (as claimed): a request has not sent its response, and has not
\* closed its connection, while its registration is still in flight.
C18_SuspendsUntilBothComplete ==
    \A r \in Reqs :
        (Responded(r) \/ conn[r] = "closed") =>
            pr[r]["update_db"].status # "pending"

\* ----------------------------------- claims on uploads next to Bulk Clear

\* C19 (as claimed): whenever the label persistence of an upload commits
\* label rows, the Asset row of their assetid is there and is the row that
\* this upload registered.
C19_LabelsOnOwnAsset ==
    [][\A r \in Reqs :
          (/\ pr[r]["update_labels"].status # "resolved"
           /\ pr'[r]["update_labels"].status = "resolved"
           /\ Len(local[r].rkg_labels) > 0) =>
              \E a \in assets' : /\ a.assetid = local[r].assetid
                                 /\ a.bucketkey = local[r].bkt_key]_vars

\* C20: every committed Asset row has its blob in the bucket.
C20_AssetBlobPresent ==
    \A a \in assets : \E o \in bucket : o.Key = a.bucketkey

\* A Bulk Clear has deleted the blobs of the keys it read and answered
\* success, and the Asset row of an upload that was served while the Bulk
\* Clear was is committed.
C20_Witness ==
    /\ DelSucceeded /\ del.calls > 0 /\ ~BktFailed
    /\ \E r \in Reqs : /\ r \notin del.before \cup del.after
                       /\ AssetsOf(r) # {}

\* ------------------------------------------- claims on every handler's exit

\* The requests to the handlers that acquire their connection at entry: where
\* each stands, its connection and what it has sent.
EntryHandlers ==
    {[pc |-> pc[r], conn |-> conn[r], response |-> response[r]] : r \in Reqs}
    \cup {[pc |-> h.pc, conn |-> h.conn, response |-> h.response] :
             h \in {[pc |-> del.pc, conn |-> del.conn, response |-> del.response],
                    [pc |-> rtv.pc, conn |-> rtv.conn, response |-> rtv.response],
                    [pc |-> ilb.pc, conn |-> ilb.conn, response |-> ilb.response],
                    [pc |-> giwl.pc, conn |-> giwl.conn,
                     response |-> giwl.response]}}

\* No request is answered twice, and every request whose connection was
\* acquired is eventually answered once, for good.
C21_AnsweredOnceConnected ==
    /\ [](\A h \in EntryHandlers : Len(h.response) <= 1)
    /\ <>[](\A h \in EntryHandlers :
               h.pc \notin {"idle", "rejected"} => Len(h.response) = 1)

\* C21 (as claimed): every request to post_image, get_image,
\* get_image_labels, get_images_with_label and delete_images is eventually
\* answered exactly once, also when get_dbConn() fails at its entry: no
\* request is answered twice, and every request that arrived eventually has
\* one response, for good.
C21_ExactlyOneResponse ==
    /\ [](\A h \in EntryHandlers : Len(h.response) <= 1)
    /\ <>[](\A h \in EntryHandlers : h.pc # "idle" => Len(h.response) = 1)

\* The requests to the read and delete handlers: where each stands and its
\* connection.
ReadDeleteHandlers ==
    [get_images            |-> [pc |-> lst.pc,  conn |-> lst.conn],
     get_image_labels      |-> [pc |-> ilb.pc,  conn |-> ilb.conn],
     get_images_with_label |-> [pc |-> giwl.pc, conn |-> giwl.conn],
     get_image             |-> [pc |-> rtv.pc,  conn |-> rtv.conn],
     delete_images         |-> [pc |-> del.pc,  conn |-> del.conn]]

\* The handler is over, and the connection it opened, if any, is not open.
Released(name) ==
    ReadDeleteHandlers[name].pc \in {"done", "rejected"}
        => ReadDeleteHandlers[name].conn # "open"

\* Every read and delete handler but get_image_labels has closed its
\* connection when it is over.
C22_ClosedButListLabels ==
    \A name \in DOMAIN ReadDeleteHandlers \ {"get_image_labels"} : Released(name)

\* C22 (as claimed): when a request to get_images, get_image_labels,
\* get_images_with_label, get_image or delete_images is over, after its
\* success response or after any failure, no connection it opened is open.
C22_ConnectionsClosed ==
    \A name \in DOMAIN ReadDeleteHandlers : Released(name)

\* ------------------------------------------------- claims on Search By Label

\* C23 (as claimed): every attempt of fetch_images finds the connection of
\* the request open, and a request whose first attempt failed transiently,
\* and no other, is answered with success.
C23_RetryOnOpenConnection ==
    /\ giwl.pc = "execute" => giwl.conn = "open"
    /\ (giwl.pc = "done" /\ giwl.first = DbFault /\ giwl.transients = 1)
           => giwl.response[1].status = 200

\* ----------------------------------------------------- claims on List Assets

\* With a positive owner filter the statement has one placeholder and that
\* one parameter.
C24_PositiveFilter ==
    (lst.pc = "execute" /\ lst.userid > 0)
        => /\ Placeholders(lst.userid) = 1
           /\ Parameters(lst.userid) = <<lst.userid>>

\* C24 (as claimed): whenever try_get_images executes its statement, as many
\* parameters are bound as the text has placeholders: without a filter the
\* statement has no Where clause and no parameter, and with a filter (0 or a
\* positive integer) it has `Where userid = ?` and that one parameter.
C24_ParametersMatchPlaceholders ==
    lst.pc = "execute" =>
        /\ Len(Parameters(lst.userid)) = Placeholders(lst.userid)
        /\ lst.userid < 0 =>
              Placeholders(lst.userid) = 0 /\ Parameters(lst.userid) = <<>>
        /\ lst.userid >= 0 =>
              Placeholders(lst.userid) = 1
              /\ Parameters(lst.userid) = <<lst.userid>>

====
